---- MODULE Spec2Model ----
(***************************************************************************)
(* Model of the 'Urban' vs 'Rural' text analysis of                        *)
(* worked_examples/geospatial/workshops_2024/explore_text_on_maps.ipynb:   *)
(* cell 11 (centroid columns), cell 13 (partition loop over the patch      *)
(* predictions), cells 14 and 15 (frequency and probability tables of the  *)
(* two label lists) and cell 17 (proportional difference ranking).         *)
(*                                                                         *)
(* Coordinates are metres in the planar system the notebook projects to    *)
(* (EPSG:27700); geometries are axis-aligned boxes (a point is a box of    *)
(* extent zero), for which centroid and point distance are exact in the    *)
(* integers.  Probabilities are kept as exact fractions num/den.  A text   *)
(* is a sequence of characters.  A dict is the sequence of its items in    *)
(* insertion order, as Python iterates it.                                 *)
(***************************************************************************)
EXTENDS Integers, Sequences, FiniteSets

VARIABLES pc, predictions, spotted_text, i, labels, adjacent_text, other_text,
          building_text_freq, building_text_prob, other_text_freq,
          other_text_prob, proportional_difference, err,
          todo, partial, unmerged

vars == <<pc, predictions, spotted_text, i, labels, adjacent_text, other_text,
          building_text_freq, building_text_prob, other_text_freq,
          other_text_prob, proportional_difference, err,
          todo, partial, unmerged>>

----------------------------------------------------------------------------
(* Bounds of the model *)

MaxAnchors == 2

MaxTexts == 2

NumWorkers == 2

----------------------------------------------------------------------------
(* Program constants, cell 13 *)

target_label == "building"

distance == 100

----------------------------------------------------------------------------
(* Inputs *)

Box(x1, y1, x2, y2) == [x1 |-> x1, y1 |-> y1, x2 |-> x2, y2 |-> y2]

Pt(x, y) == Box(x, y, x, y)

\* Patches: squares of side 40 m around (0,0) and around (200,0).
PatchP == Box(-20, -20, 20, 20)

PatchQ == Box(180, -20, 220, 20)

AnchorPool ==
    { [geometry |-> PatchP, predicted_label |-> "building"],
      [geometry |-> PatchP, predicted_label |-> "no_building"],
      [geometry |-> PatchQ, predicted_label |-> "no_building"] }

\* Text geometries.  Distances are to the patch centroids (0,0) and (200,0).
GeomOnRimP == Pt(60, 80)           \* exactly 100 m from (0,0), 161 m from (200,0)

GeomNowhere == Pt(80, 80)          \* 113 m from (0,0), 144 m from (200,0)

GeomBetween == Pt(100, 0)          \* exactly 100 m from both

GeomNearQ == Pt(200, 60)           \* 60 m from (200,0), 208 m from (0,0)

GeomLong == Box(40, 0, 280, 0)     \* nearest point 40 m from (0,0); centroid (160,0)

DetectionPool ==
    { [text |-> <<"S", "t">>, geometry |-> GeomOnRimP],
      [text |-> <<"s", "t">>, geometry |-> GeomBetween],
      [text |-> <<"L">>,      geometry |-> GeomNearQ],
      [text |-> <<"L">>,      geometry |-> GeomOnRimP],
      [text |-> <<"s", "t">>, geometry |-> GeomNowhere],
      [text |-> <<"S", "T">>, geometry |-> GeomLong] }

SeqsUpTo(S, n) == UNION { [1..k -> S] : k \in 0..n }

Workers == 1..NumWorkers

----------------------------------------------------------------------------
(* Geometry: GeoSeries.centroid and GeoSeries.distance *)

Centroid(g) == [x |-> (g.x1 + g.x2) \div 2, y |-> (g.y1 + g.y2) \div 2]

Gap(lo, hi, v) == IF v < lo THEN lo - v ELSE IF v > hi THEN v - hi ELSE 0

\* Squared Euclidean distance from the geometry g to the point p: the distance
\* to the nearest point of g, zero when p lies in g.
Distance2(g, p) ==
    Gap(g.x1, g.x2, p.x) * Gap(g.x1, g.x2, p.x)
  + Gap(g.y1, g.y2, p.y) * Gap(g.y1, g.y2, p.y)

\* d <= distance, for non-negative d, compared on the squares.
WithinDistance(d2) == d2 <= distance * distance

\* Cell 11: df['centroid'] = df['geometry'].to_crs(epsg=27700).centroid
WithCentroid(df) ==
    [k \in 1..Len(df) |->
        [c \in DOMAIN df[k] \cup {"centroid"} |->
            IF c = "centroid" THEN Centroid(df[k].geometry) ELSE df[k][c]]]

----------------------------------------------------------------------------
(* Cell 13: the partition loop *)

RECURSIVE Filter(_, _)
\* df[mask]: the rows of df whose position is in keep, in order.
Filter(df, keep) ==
    IF df = <<>> THEN <<>>
    ELSE LET n == Len(df)
             init == Filter(SubSeq(df, 1, n - 1), keep)
         IN  IF n \in keep THEN Append(init, df[n]) ELSE init

\* spotted_text.to_crs(epsg=27700).distance(row.centroid) <= distance: the
\* GeoDataFrame's distance is taken from its active geometry column.
Mask(st, point) ==
    { k \in 1..Len(st) : WithinDistance(Distance2(st[k].geometry, point)) }

\* spotted_text[...].text.tolist()
LabelsNear(st, point) ==
    LET rows == Filter(st, Mask(st, point))
    IN  [k \in 1..Len(rows) |-> rows[k].text]

\* list.extend that skips the labels the list already holds.
ExtendDistinct(list, more) ==
    list \o Filter(more, { k \in 1..Len(more) :
                              /\ \A j \in 1..Len(list) : list[j] # more[k]
                              /\ \A j \in 1..(k - 1) : more[j] # more[k] })

\* list.extend
Extend(list, more) == list \o more

IsTarget(row) == row.predicted_label = target_label

\* The body of the loop for one row: the two lists after it.
LoopBody(adj, oth, row, st) ==
    LET ls == LabelsNear(st, row.centroid)
    IN  IF IsTarget(row)
        THEN [adjacent |-> Extend(adj, ls), other |-> oth, labels |-> ls]
        ELSE [adjacent |-> adj, other |-> Extend(oth, ls), labels |-> ls]

----------------------------------------------------------------------------
(* Cells 14 and 15: Counter and the probability dict *)

LowerChar(c) ==
    CASE c = "S" -> "s"
      [] c = "T" -> "t"
      [] c = "L" -> "l"
      [] OTHER -> c

\* No lowercasing: the label as spotted.
AsSpotted(s) == s

\* str.lower
lower(s) == [k \in 1..Len(s) |-> LowerChar(s[k])]

\* [i.lower() for i in list]
LowerAll(list) == [k \in 1..Len(list) |-> lower(list[k])]

Keys(d) == { d[k].key : k \in 1..Len(d) }

HasKey(d, w) == w \in Keys(d)

IndexOf(d, w) == CHOOSE k \in 1..Len(d) : d[k].key = w

\* Counter's update for one element: count it under its key, a new key goes
\* last.
CountOne(d, w) ==
    IF HasKey(d, w)
    THEN [d EXCEPT ![IndexOf(d, w)].val = @ + 1]
    ELSE Append(d, [key |-> w, val |-> 1])

RECURSIVE Counter(_)
Counter(list) ==
    IF list = <<>> THEN <<>>
    ELSE CountOne(Counter(SubSeq(list, 1, Len(list) - 1)), list[Len(list)])

RECURSIVE SumValues(_)
\* sum(freq.values())
SumValues(d) ==
    IF d = <<>> THEN 0 ELSE d[1].val + SumValues(Tail(d))

Frac(n, d) == [num |-> n, den |-> d]

\* Division by the number of distinct keys, len(freq), not by the sum.
ProbTableByKeys(freq) ==
    [k \in 1..Len(freq) |->
        [key |-> freq[k].key, val |-> Frac(freq[k].val, Len(freq))]]

\* {k: v / sum(freq.values()) for k, v in freq.items()}
ProbTable(freq) ==
    [k \in 1..Len(freq) |->
        [key |-> freq[k].key, val |-> Frac(freq[k].val, SumValues(freq))]]

\* The total inverted once, ahead of the comprehension: raises on no items.
ProbErrorEager(freq) ==
    IF SumValues(freq) = 0 THEN "ZeroDivisionError" ELSE "none"

\* The division v / sum(...) is evaluated once per item, and raises when the
\* sum is zero.
ProbError(freq) ==
    IF \E k \in 1..Len(freq) : SumValues(freq) = 0
    THEN "ZeroDivisionError" ELSE "none"

----------------------------------------------------------------------------
(* Cell 17: the proportional difference *)

Zero == Frac(0, 1)

RatSub(a, b) == Frac(a.num * b.den - b.num * a.den, a.den * b.den)

RatLess(a, b) == a.num * b.den < b.num * a.den

RatEq(a, b) == a.num * b.den = b.num * a.den

\* dict.get(w, 0)
Get(d, w) == IF HasKey(d, w) THEN d[IndexOf(d, w)].val ELSE Zero

\* The comprehension run over prob_a.keys().
DifferenceItemsOverA(prob_a, prob_b) ==
    [k \in 1..Len(prob_a) |->
        [key |-> prob_a[k].key,
         val |-> RatSub(Get(prob_a, prob_a[k].key), Get(prob_b, prob_a[k].key))]]

\* The comprehension run over the keys of both dicts: those of prob_b, then
\* those only prob_a has.
DifferenceItemsAllKeys(prob_a, prob_b) ==
    LET onlyA == Filter(prob_a, { k \in 1..Len(prob_a) :
                                    ~HasKey(prob_b, prob_a[k].key) })
        keys == [k \in 1..Len(prob_b) |-> prob_b[k].key]
                \o [k \in 1..Len(onlyA) |-> onlyA[k].key]
    IN  [k \in 1..Len(keys) |->
            [key |-> keys[k],
             val |-> RatSub(Get(prob_a, keys[k]), Get(prob_b, keys[k]))]]

\* {w: prob_a.get(w,0) - prob_b.get(w,0) for w in prob_b.keys()}.items()
DifferenceItems(prob_a, prob_b) ==
    [k \in 1..Len(prob_b) |->
        [key |-> prob_b[k].key,
         val |-> RatSub(Get(prob_a, prob_b[k].key), Get(prob_b, prob_b[k].key))]]

\* Insert e ahead of the items whose value equals e's: an unstable sort.
InsertAheadOfTies(s, e) ==
    LET ahead == { k \in 1..Len(s) : RatLess(e.val, s[k].val) }
        n == Cardinality(ahead)
    IN  SubSeq(s, 1, n) \o <<e>> \o SubSeq(s, n + 1, Len(s))

\* Insert e behind every item whose value is not less than e's.
InsertDescending(s, e) ==
    LET ahead == { k \in 1..Len(s) : ~RatLess(s[k].val, e.val) }
        n == Cardinality(ahead)
    IN  SubSeq(s, 1, n) \o <<e>> \o SubSeq(s, n + 1, Len(s))

\* The items as the dict yields them, the sort left out.
Unsorted(items) == items

RECURSIVE SortedDescending(_)
\* sorted(items, key=lambda x: x[1], reverse=True): stable, descending.
SortedDescending(items) ==
    IF items = <<>> THEN <<>>
    ELSE InsertDescending(SortedDescending(SubSeq(items, 1, Len(items) - 1)),
                          items[Len(items)])

ProportionalDifference(prob_a, prob_b) ==
    SortedDescending(DifferenceItems(prob_a, prob_b))

----------------------------------------------------------------------------
(* The notebook, cell by cell *)

NoPartial == [w \in Workers |-> [adjacent |-> <<>>, other |-> <<>>]]

Init ==
    /\ pc = "cell11"
    /\ predictions \in SeqsUpTo(AnchorPool, MaxAnchors)
    /\ spotted_text \in SeqsUpTo(DetectionPool, MaxTexts)
    /\ i = 0
    /\ labels = <<>>
    /\ adjacent_text = <<>>
    /\ other_text = <<>>
    /\ building_text_freq = <<>>
    /\ building_text_prob = <<>>
    /\ other_text_freq = <<>>
    /\ other_text_prob = <<>>
    /\ proportional_difference = <<>>
    /\ err = "none"
    /\ todo = {}
    /\ partial = NoPartial
    /\ unmerged = {}

Cell11 ==
    /\ pc = "cell11"
    /\ predictions' = WithCentroid(predictions)
    /\ spotted_text' = WithCentroid(spotted_text)
    /\ pc' = "cell13"
    /\ UNCHANGED <<i, labels, adjacent_text, other_text, building_text_freq,
                   building_text_prob, other_text_freq, other_text_prob,
                   proportional_difference, err, todo, partial, unmerged>>

Cell13Start ==
    /\ pc = "cell13"
    /\ adjacent_text' = <<>>
    /\ other_text' = <<>>
    /\ i' = 1
    /\ pc' = "loop"
    /\ UNCHANGED <<predictions, spotted_text, labels, building_text_freq,
                   building_text_prob, other_text_freq, other_text_prob,
                   proportional_difference, err, todo, partial, unmerged>>

Cell13Row ==
    /\ pc = "loop"
    /\ i <= Len(predictions)
    /\ LET r == LoopBody(adjacent_text, other_text, predictions[i], spotted_text)
       IN  /\ labels' = r.labels
           /\ adjacent_text' = r.adjacent
           /\ other_text' = r.other
    /\ i' = i + 1
    /\ UNCHANGED <<pc, predictions, spotted_text, building_text_freq,
                   building_text_prob, other_text_freq, other_text_prob,
                   proportional_difference, err, todo, partial, unmerged>>

Cell13End ==
    /\ pc = "loop"
    /\ i > Len(predictions)
    /\ pc' = "cell14"
    /\ UNCHANGED <<predictions, spotted_text, i, labels, adjacent_text,
                   other_text, building_text_freq, building_text_prob,
                   other_text_freq, other_text_prob, proportional_difference,
                   err, todo, partial, unmerged>>

Cell14 ==
    /\ pc = "cell14"
    /\ LET freq == Counter(LowerAll(adjacent_text))
       IN  /\ building_text_freq' = freq
           /\ IF ProbError(freq) = "none"
              THEN /\ building_text_prob' = ProbTable(freq)
                   /\ pc' = "cell15"
                   /\ err' = err
              ELSE /\ building_text_prob' = building_text_prob
                   /\ pc' = "halted"
                   /\ err' = ProbError(freq)
    /\ UNCHANGED <<predictions, spotted_text, i, labels, adjacent_text,
                   other_text, other_text_freq, other_text_prob,
                   proportional_difference, todo, partial, unmerged>>

Cell15 ==
    /\ pc = "cell15"
    /\ LET freq == Counter(LowerAll(other_text))
       IN  /\ other_text_freq' = freq
           /\ IF ProbError(freq) = "none"
              THEN /\ other_text_prob' = ProbTable(freq)
                   /\ pc' = "cell17"
                   /\ err' = err
              ELSE /\ other_text_prob' = other_text_prob
                   /\ pc' = "halted"
                   /\ err' = ProbError(freq)
    /\ UNCHANGED <<predictions, spotted_text, i, labels, adjacent_text,
                   other_text, building_text_freq, building_text_prob,
                   proportional_difference, todo, partial, unmerged>>

Cell17 ==
    /\ pc = "cell17"
    /\ proportional_difference' =
           ProportionalDifference(building_text_prob, other_text_prob)
    /\ pc' = "done"
    /\ UNCHANGED <<predictions, spotted_text, i, labels, adjacent_text,
                   other_text, building_text_freq, building_text_prob,
                   other_text_freq, other_text_prob, err, todo, partial,
                   unmerged>>

Next ==
    \/ Cell11
    \/ Cell13Start
    \/ Cell13Row
    \/ Cell13End
    \/ Cell14
    \/ Cell15
    \/ Cell17

Spec == Init /\ [][Next]_vars

----------------------------------------------------------------------------
(* The loop of cell 13 run by workers: each worker runs the loop body on the
   rows it takes, in the order it takes them, into lists of its own (the
   labels of a row are local to the worker), and the workers' lists are
   appended to adjacent_text and other_text at the end. *)

ParStart ==
    /\ pc = "cell13"
    /\ adjacent_text' = <<>>
    /\ other_text' = <<>>
    /\ todo' = 1..Len(predictions)
    /\ partial' = NoPartial
    /\ unmerged' = Workers
    /\ pc' = "workers"
    /\ UNCHANGED <<predictions, spotted_text, i, labels, building_text_freq,
                   building_text_prob, other_text_freq, other_text_prob,
                   proportional_difference, err>>

WorkerRow(w, k) ==
    /\ pc = "workers"
    /\ k \in todo
    /\ LET r == LoopBody(partial[w].adjacent, partial[w].other,
                         predictions[k], spotted_text)
       IN  partial' = [partial EXCEPT
                          ![w] = [adjacent |-> r.adjacent, other |-> r.other]]
    /\ todo' = todo \ {k}
    /\ UNCHANGED <<pc, predictions, spotted_text, i, labels, adjacent_text,
                   other_text, building_text_freq, building_text_prob,
                   other_text_freq, other_text_prob, proportional_difference,
                   err, unmerged>>

Merge(w) ==
    /\ pc = "workers"
    /\ todo = {}
    /\ w \in unmerged
    /\ adjacent_text' = Extend(adjacent_text, partial[w].adjacent)
    /\ other_text' = Extend(other_text, partial[w].other)
    /\ unmerged' = unmerged \ {w}
    /\ UNCHANGED <<pc, predictions, spotted_text, i, labels,
                   building_text_freq, building_text_prob, other_text_freq,
                   other_text_prob, proportional_difference, err, todo,
                   partial>>

ParEnd ==
    /\ pc = "workers"
    /\ todo = {}
    /\ unmerged = {}
    /\ pc' = "cell14"
    /\ UNCHANGED <<predictions, spotted_text, i, labels, adjacent_text,
                   other_text, building_text_freq, building_text_prob,
                   other_text_freq, other_text_prob, proportional_difference,
                   err, todo, partial, unmerged>>

NextPar ==
    \/ Cell11
    \/ ParStart
    \/ \E w \in Workers : \E k \in todo : WorkerRow(w, k)
    \/ \E w \in Workers : Merge(w)
    \/ ParEnd
    \/ Cell14
    \/ Cell15
    \/ Cell17

SpecPar == Init /\ [][NextPar]_vars

----------------------------------------------------------------------------
(* The results of the sequential notebook for given inputs *)

RECURSIVE SequentialLists(_, _)
\* The two lists after the loop of cell 13 over the rows preds, in order.
SequentialLists(preds, st) ==
    IF preds = <<>> THEN [adjacent |-> <<>>, other |-> <<>>]
    ELSE LET before == SequentialLists(SubSeq(preds, 1, Len(preds) - 1), st)
             r == LoopBody(before.adjacent, before.other, preds[Len(preds)], st)
         IN  [adjacent |-> r.adjacent, other |-> r.other]

SequentialRanking(preds, st) ==
    LET ls == SequentialLists(preds, st)
    IN  ProportionalDifference(ProbTable(Counter(LowerAll(ls.adjacent))),
                               ProbTable(Counter(LowerAll(ls.other))))

----------------------------------------------------------------------------
(* Vocabulary of the properties *)

AfterLoop == pc \in {"cell14", "cell15", "cell17", "done", "halted"}

AfterCell14 == pc \in {"cell15", "cell17", "done"}

AfterCell15 == pc \in {"cell17", "done"}

\* The number of rows the loop of cell 13 has processed.
Processed == IF pc = "loop" THEN i - 1 ELSE Len(predictions)

Rows == 1..Len(predictions)

Dets == 1..Len(spotted_text)

\* Detection t is matched for row a.
InRange(a, t) ==
    WithinDistance(Distance2(spotted_text[t].geometry, predictions[a].centroid))

Occurrences(list, s) == Cardinality({ k \in 1..Len(list) : list[k] = s })

Elements(list) == { list[k] : k \in 1..Len(list) }

MatchedPairs(n, target, s) ==
    { p \in (1..n) \X Dets :
        /\ IsTarget(predictions[p[1]]) = target
        /\ spotted_text[p[2]].text = s
        /\ InRange(p[1], p[2]) }

TextsSeen ==
    { spotted_text[t].text : t \in Dets }
        \cup Elements(adjacent_text) \cup Elements(other_text)

Uppercase == {"S", "T", "L"}

CasePairs == { <<"S", "s">>, <<"T", "t">>, <<"L", "l">> }

IsLowercased(w) == \A k \in 1..Len(w) : w[k] \notin Uppercase

\* w is the lowercase form of s.
FoldsTo(s, w) ==
    /\ Len(s) = Len(w)
    /\ \A k \in 1..Len(s) :
          IF s[k] \in Uppercase THEN <<s[k], w[k]>> \in CasePairs
                                ELSE w[k] = s[k]

\* s and t differ in case at most.
SameTerm(s, t) ==
    /\ Len(s) = Len(t)
    /\ \A k \in 1..Len(s) :
          \/ s[k] = t[k]
          \/ <<s[k], t[k]>> \in CasePairs
          \/ <<t[k], s[k]>> \in CasePairs

OccursIn(list, w) == \E j \in 1..Len(list) : SameTerm(list[j], w)

ValueOf(d, w) == d[CHOOSE k \in 1..Len(d) : d[k].key = w].val

Position(d, w) == CHOOSE k \in 1..Len(d) : d[k].key = w

Items(d) == { d[k] : k \in 1..Len(d) }

RatAdd(a, b) == Frac(a.num * b.den + b.num * a.den, a.den * b.den)

RECURSIVE RatSum(_)
RatSum(d) == IF d = <<>> THEN Zero ELSE RatAdd(d[1].val, RatSum(Tail(d)))

----------------------------------------------------------------------------
(* C1 *)

----------------------------------------------------------------------------
(* C2 *)

\* C2: after the loop every detection is stored: in adjacent_text when it is
\* within the distance of a building patch, in other_text otherwise.
C2_EveryDetectionStored ==
    AfterLoop =>
        \A t \in Dets :
            IF \E a \in Rows : IsTarget(predictions[a]) /\ InRange(a, t)
            THEN spotted_text[t].text \in Elements(adjacent_text)
            ELSE spotted_text[t].text \in Elements(other_text)

----------------------------------------------------------------------------
(* C3 *)

\* C3: the table construction of an empty label list ends in a reported
\* error and returns no empty probability table.
C3_EmptyBucketRaises ==
    /\ (pc \in {"cell15", "cell17", "done", "halted"} /\ adjacent_text = <<>>)
           => err # "none"
    /\ (pc \in {"cell17", "done"} /\ other_text = <<>>) => err # "none"

\* C3 as amended: the table construction of an empty label list raises
\* nothing, and returns the empty frequency table and the empty probability
\* table.
C3_EmptyBucketGivesEmptyTables ==
    /\ pc # "halted"
    /\ err = "none"
    /\ (AfterCell14 /\ adjacent_text = <<>>)
           => (building_text_freq = <<>> /\ building_text_prob = <<>>)
    /\ (AfterCell15 /\ other_text = <<>>)
           => (other_text_freq = <<>> /\ other_text_prob = <<>>)

\* Cell 15 has run on an empty other_text, after cell 14 on a list with labels.
C3_Witness ==
    /\ pc = "cell17"
    /\ other_text = <<>>
    /\ adjacent_text # <<>>
    /\ Len(spotted_text) > 0

----------------------------------------------------------------------------
(* C4 *)

FreqIsCountOf(freq, list) ==
    /\ \A j, k \in 1..Len(freq) : freq[j].key = freq[k].key => j = k
    /\ \A k \in 1..Len(freq) :
          /\ IsLowercased(freq[k].key)
          /\ freq[k].val > 0
          /\ freq[k].val
                 = Cardinality({ j \in 1..Len(list) : FoldsTo(list[j], freq[k].key) })
    /\ \A j \in 1..Len(list) : \E k \in 1..Len(freq) : FoldsTo(list[j], freq[k].key)
    /\ SumValues(freq) = Len(list)

\* C4: every key of a frequency table is lowercased; the count under a key is
\* the number of labels of the list whose lowercase form is the key; a label
\* of the list is counted under a key, a string that does not occur is no key;
\* the counts sum to the length of the list.
C4_FrequencyTable ==
    /\ AfterCell14 => FreqIsCountOf(building_text_freq, adjacent_text)
    /\ AfterCell15 => FreqIsCountOf(other_text_freq, other_text)

\* Cell 14 has counted a list holding two labels that differ in case only.
C4_Witness ==
    /\ pc = "cell15"
    /\ \E j, k \in 1..Len(adjacent_text) :
          /\ adjacent_text[j] # adjacent_text[k]
          /\ SameTerm(adjacent_text[j], adjacent_text[k])

----------------------------------------------------------------------------
(* C5 *)

ProbIsNormalised(prob, freq) ==
    /\ Len(prob) = Len(freq)
    /\ \A k \in 1..Len(prob) :
          /\ prob[k].key = freq[k].key
          /\ prob[k].val.den > 0
          /\ RatEq(prob[k].val, Frac(freq[k].val, SumValues(freq)))
          /\ RatLess(Zero, prob[k].val)
          /\ ~RatLess(Frac(1, 1), prob[k].val)
    /\ RatEq(RatSum(prob), Frac(1, 1))

\* C5: for a list with labels, the probability table has the keys of the
\* frequency table, each value is the count over the sum of the counts and
\* lies in (0, 1], and the values sum to 1.
C5_ProbabilityTable ==
    /\ (AfterCell14 /\ adjacent_text # <<>>)
           => ProbIsNormalised(building_text_prob, building_text_freq)
    /\ (AfterCell15 /\ other_text # <<>>)
           => ProbIsNormalised(other_text_prob, other_text_freq)

\* Cell 14 has built a table of two keys from more labels than keys.
C5_Witness ==
    /\ pc = "cell15"
    /\ Len(building_text_prob) = 2
    /\ Len(adjacent_text) > 2

----------------------------------------------------------------------------
(* C6 *)

ExpectedDifference(prob_a, prob_b, w) ==
    IF w \in Keys(prob_a)
    THEN RatSub(ValueOf(prob_a, w), ValueOf(prob_b, w))
    ELSE Frac(0 - ValueOf(prob_b, w).num, ValueOf(prob_b, w).den)

\* C6: the ranking has one pair per key of other_text_prob and no other pair,
\* and the value paired with w is building_text_prob[w] - other_text_prob[w]
\* when w is a key of building_text_prob, and -other_text_prob[w] otherwise.
C6_RankingContent ==
    pc = "done" =>
        /\ Len(proportional_difference) = Len(other_text_prob)
        /\ Keys(proportional_difference) = Keys(other_text_prob)
        /\ \A j, k \in 1..Len(proportional_difference) :
              proportional_difference[j].key = proportional_difference[k].key
                  => j = k
        /\ \A k \in 1..Len(proportional_difference) :
              RatEq(proportional_difference[k].val,
                    ExpectedDifference(building_text_prob, other_text_prob,
                                       proportional_difference[k].key))

\* The ranking is built from tables where one key is in building_text_prob
\* only and another is in both.
C6_Witness ==
    /\ pc = "done"
    /\ \E w \in Keys(building_text_prob) : w \notin Keys(other_text_prob)
    /\ \E w \in Keys(building_text_prob) : w \in Keys(other_text_prob)

----------------------------------------------------------------------------
(* C7 *)

FirstOccurrence(list, w) ==
    CHOOSE n \in 1..Len(list) :
        /\ FoldsTo(list[n], w)
        /\ \A m \in 1..(n - 1) : ~FoldsTo(list[m], w)

\* C7: the ranking is in descending order of the difference; pairs of equal
\* difference are in the order of their keys in other_text_prob, which is the
\* order in which the lowercased labels first occur in other_text.
C7_RankingOrder ==
    pc = "done" =>
        /\ \A j, k \in 1..Len(proportional_difference) :
              j < k =>
                /\ ~RatLess(proportional_difference[j].val,
                            proportional_difference[k].val)
                /\ RatEq(proportional_difference[j].val,
                         proportional_difference[k].val)
                      => Position(other_text_prob, proportional_difference[j].key)
                           < Position(other_text_prob, proportional_difference[k].key)
        /\ \A j, k \in 1..Len(other_text_prob) :
              j < k => FirstOccurrence(other_text, other_text_prob[j].key)
                         < FirstOccurrence(other_text, other_text_prob[k].key)

\* The ranking holds two pairs of equal difference.
C7_Witness ==
    /\ pc = "done"
    /\ \E j, k \in 1..Len(proportional_difference) :
          /\ j < k
          /\ RatEq(proportional_difference[j].val, proportional_difference[k].val)

----------------------------------------------------------------------------
(* C8 *)

PointDistance2(p, q) == (p.x - q.x) * (p.x - q.x) + (p.y - q.y) * (p.y - q.y)

CentroidLabels(row) ==
    LET rows == Filter(spotted_text,
                       { t \in Dets :
                           WithinDistance(PointDistance2(spotted_text[t].centroid,
                                                         row.centroid)) })
    IN  [k \in 1..Len(rows) |-> rows[k].text]

\* C8: the labels collected for a row are those of the detections whose
\* centroid is at most `distance` from the centroid of the row.
C8_MatchOnCentroidDistance ==
    (pc = "loop" /\ i > 1) => labels = CentroidLabels(predictions[i - 1])

----------------------------------------------------------------------------
(* C9 *)

SameBag(a, b) ==
    \A s \in Elements(a) \cup Elements(b) : Occurrences(a, s) = Occurrences(b, s)

\* The lists and the tables are those of the sequential loop, the lists as
\* multisets and the tables as mappings.
SameListsAndTables ==
    LET seq == SequentialLists(predictions, spotted_text)
        fa == Counter(LowerAll(seq.adjacent))
        fo == Counter(LowerAll(seq.other))
    IN  /\ SameBag(adjacent_text, seq.adjacent)
        /\ SameBag(other_text, seq.other)
        /\ Items(building_text_freq) = Items(fa)
        /\ Items(other_text_freq) = Items(fo)
        /\ Items(building_text_prob) = Items(ProbTable(fa))
        /\ Items(other_text_prob) = Items(ProbTable(fo))

\* C9: whatever the order in which the rows are processed and whatever their
\* split among workers, the lists, the tables and the ranking are those of
\* the sequential loop, the ranking as the same sequence of pairs.
C9_SameAsSequential ==
    pc = "done" =>
        /\ SameListsAndTables
        /\ proportional_difference = SequentialRanking(predictions, spotted_text)

\* C9 as amended: the lists and the tables are those of the sequential loop,
\* and the ranking holds the same pairs with the same sequence of difference
\* values: it differs from the sequential ranking at most in the order of
\* pairs of equal difference.
C9_SameUpToTies ==
    pc = "done" =>
        LET seq == SequentialRanking(predictions, spotted_text)
        IN  /\ SameListsAndTables
            /\ Len(proportional_difference) = Len(seq)
            /\ Items(proportional_difference) = Items(seq)
            /\ \A k \in 1..Len(seq) :
                  RatEq(proportional_difference[k].val, seq[k].val)

\* The workers have processed the rows in an order that gives a ranking other
\* than the sequential one.
C9_Witness ==
    /\ pc = "done"
    /\ proportional_difference # SequentialRanking(predictions, spotted_text)

----------------------------------------------------------------------------
(* C10 *)

\* C10: at the end of the pipeline, a term ranked with a positive difference
\* occurs in both lists, a term that occurs in other_text only is ranked with
\* a negative difference, and the ranking is empty when other_text is.
C10_RankingSigns ==
    pc = "done" =>
        /\ \A k \in 1..Len(proportional_difference) :
              RatLess(Zero, proportional_difference[k].val)
                  => /\ OccursIn(adjacent_text, proportional_difference[k].key)
                     /\ OccursIn(other_text, proportional_difference[k].key)
        /\ \A j \in 1..Len(other_text) :
              ~OccursIn(adjacent_text, other_text[j])
                  => \E k \in 1..Len(proportional_difference) :
                        /\ FoldsTo(other_text[j], proportional_difference[k].key)
                        /\ RatLess(proportional_difference[k].val, Zero)
        /\ other_text = <<>> => proportional_difference = <<>>

\* The ranking holds a pair of positive difference, and other_text a term
\* that adjacent_text has not.
C10_Witness ==
    /\ pc = "done"
    /\ \E k \in 1..Len(proportional_difference) :
          RatLess(Zero, proportional_difference[k].val)
    /\ \E j \in 1..Len(other_text) : ~OccursIn(adjacent_text, other_text[j])

====
